---- MODULE Spec2Model ----
(***************************************************************************)
(* Model of src/connection.go: one connection to a Kafka node.  Three      *)
(* kinds of goroutine share it: nextIDLoop (the correlation ID generator), *)
(* readRespLoop (the single reader of the stream) and the callers of the   *)
(* RPC methods and of Close().  Every blocking point of the code (a mutex  *)
(* acquisition, an unbuffered channel operation, a stream read or write)   *)
(* starts a new step of the model; what lies between two blocking points   *)
(* is local to one goroutine and is taken in one step.                     *)
(***************************************************************************)
EXTENDS Integers, FiniteSets, Sequences, TLC

\* math.MaxInt32, the value at which nextIDLoop resets its counter.
MaxInt32 == 2147483647

\* Bounds of the model: RPC calls, Close() calls and response frames.
MaxCalls == 2
MaxCloses == 2
MaxFrames == 1
MaxLaps == 1

Calls == 1..MaxCalls
Closes == 1..MaxCloses

\* The seven RPC methods of the connection.
Ops == {"Metadata", "Produce", "Fetch", "Offset",
        "ConsumerMetadata", "OffsetCommit", "OffsetFetch"}

\* A request: the method it is passed to and, for Produce, whether
\* RequiredAcks differs from proto.RequiredAcksNone.
Requests == {[op |-> o, acks |-> a] : o \in Ops, a \in BOOLEAN} \
              {[op |-> o, acks |-> FALSE] : o \in Ops \ {"Produce"}}

NoRet == [resp |-> <<>>, err |-> "pending"]

VARIABLES
    id,        \* nextIDLoop: the local counter
    genpc,     \* nextIDLoop: "select", or "done" after close(c.nextID)
    lap,       \* history: how many times nextIDLoop has reset id to 1
    mu,        \* c.mu: "free" or the goroutine inside closeConnection
    respc,     \* c.respc: correlation ID -> the call whose channel it holds
    chan,      \* per call, its response channel: none, open, sent, closed
    stopErr,   \* c.stopErr
    stopCloses,\* how many times close(c.stop) has run
    rwCloses,  \* how many times c.rw.Close() has run
    panicked,  \* a send on, or close of, a closed channel has happened
    pc,        \* per call: where its goroutine is
    noack,     \* per call: the request is a Produce with RequiredAcksNone
    tlap,      \* history, per call: the value of lap when it received tok
    tok,       \* per call: req.CorrelationID
    ret,       \* per call: what the method returned
    cpc,       \* per Close() call: where its goroutine is
    cret,      \* per Close() call: what it returned
    rdpc,      \* readRespLoop: where it is
    frame,     \* readRespLoop: correlationID of the frame just read
    rc,        \* readRespLoop: the call whose channel it sends b to
    nframes,   \* frames read so far
    logged     \* lines written by log.Printf

vars == <<id, genpc, lap, mu, respc, chan, stopErr, stopCloses, rwCloses,
          panicked, pc, noack, tok, tlap, ret, cpc, cret, rdpc, frame, rc, nframes,
          logged>>

genVars == <<id, genpc, lap>>
connVars == <<mu, stopErr, stopCloses, rwCloses>>
tableVars == <<respc, chan, panicked>>
callVars == <<pc, noack, tok, tlap, ret>>
closeVars == <<cpc, cret>>
readerVars == <<rdpc, frame, rc, nframes, logged>>

Init ==
    /\ id = 1
    /\ genpc = "select"
    /\ lap = 0
    /\ mu = "free"
    /\ respc = [t \in {} |-> 0]
    /\ chan = [k \in Calls |-> "none"]
    /\ stopErr = "nil"
    /\ stopCloses = 0
    /\ rwCloses = 0
    /\ panicked = FALSE
    /\ pc = [k \in Calls |-> "idle"]
    /\ noack = [k \in Calls |-> FALSE]
    /\ tok = [k \in Calls |-> 0]
    /\ tlap = [k \in Calls |-> 0]
    /\ ret = [k \in Calls |-> NoRet]
    /\ cpc = [k \in Closes |-> "idle"]
    /\ cret = [k \in Closes |-> "pending"]
    /\ rdpc = "read"
    /\ frame = 0
    /\ rc = 0
    /\ nframes = 0
    /\ logged = 0

----------------------------------------------------------------------------
\* Helpers.

\* The calls whose channels the table holds.
Registered == {respc[t] : t \in DOMAIN respc}

\* Metadata reads c.stopErr under c.mu; the other methods read it directly.
LocksForStopErr(r) == r.op = "Metadata"

\* req.RequiredAcks == proto.RequiredAcksNone, a field of ProduceReq only.
AcksNone(r) == r.op = "Produce" /\ ~r.acks

\* Variant: Produce without the RequiredAcksNone branch.
SkipsResponseNever(r) == FALSE

\* Produce with RequiredAcksNone writes and returns; every other request
\* goes on to respWaiter.
SkipsResponse(r) == AcksNone(r)

\* Variant: nextIDLoop without the reset.
NextIDNoReset(i) == i + 1

\* Variant: nextIDLoop without the increment.
NextIDStuck(i) == i

\* nextIDLoop: id++, and back to 1 when it reaches math.MaxInt32.
NextID(i) == IF i + 1 = MaxInt32 THEN 1 ELSE i + 1

\* Variant: respWaiter without the check for an existing entry.
RespWaiterOverwrite(t, k) ==
    [err |-> "nil", table |-> (t :> k) @@ respc]

\* respWaiter: the error it returns and the table it leaves.
RespWaiter(t, k) ==
    IF t \in DOMAIN respc
    THEN [err |-> "Conflict", table |-> respc]
    ELSE [err |-> "nil", table |-> (t :> k) @@ respc]

\* Variant: the lookup takes an entry of the table whatever its key.
LookupAny(t) ==
    LET x == IF t \in DOMAIN respc \/ DOMAIN respc = {} THEN t
             ELSE CHOOSE y \in DOMAIN respc : TRUE IN
    [ok |-> x \in DOMAIN respc,
     rc |-> IF x \in DOMAIN respc THEN respc[x] ELSE 0,
     table |-> [y \in DOMAIN respc \ {x} |-> respc[y]]]

\* Variant: the lookup without delete(c.respc, correlationID).
LookupKeepsEntry(t) ==
    [ok |-> t \in DOMAIN respc,
     rc |-> IF t \in DOMAIN respc THEN respc[t] ELSE 0,
     table |-> respc]

\* Variant: a frame with no entry resets the table.
LookupResets(t) ==
    [ok |-> t \in DOMAIN respc,
     rc |-> IF t \in DOMAIN respc THEN respc[t] ELSE 0,
     table |-> IF t \in DOMAIN respc
               THEN [x \in DOMAIN respc \ {t} |-> respc[x]]
               ELSE [x \in {} |-> 0]]

\* readRespLoop, under c.mu: rc, ok := c.respc[correlationID] and
\* delete(c.respc, correlationID).
LookupAndDelete(t) ==
    [ok |-> t \in DOMAIN respc,
     rc |-> IF t \in DOMAIN respc THEN respc[t] ELSE 0,
     table |-> [x \in DOMAIN respc \ {t} |-> respc[x]]]

\* Variant: closeConnection without the check of c.stopErr.
StopErrSetNever == FALSE

\* closeConnection: c.stopErr != nil.
StopErrSet == stopErr # "nil"

\* Variant: nextIDLoop goes on with its loop after the stop signal.
GenAfterStopGoesOn == "select"

\* nextIDLoop after case <-c.stop: close(c.nextID) and return.
GenAfterStop == "done"

\* Variant: the deferred function closes nothing.
DrainedNone == {}

\* The calls whose channels the deferred function of readRespLoop closes.
Drained == {respc[t] : t \in DOMAIN respc}

\* Variant: closeConnection returns its argument when already closed.
AlreadyClosedReturnsArg(err) == err

\* What closeConnection(err) returns when c.stopErr is already set.
AlreadyClosed(err) == stopErr

\* What a method returns once it has seen c.nextID or its channel closed.
ClosedResult == [resp |-> <<>>, err |-> stopErr]

\* The requests that have reached the stream: a response may follow each.
Attempted(k) ==
    \/ pc[k] = "wait"
    \/ pc[k] = "done" /\ tok[k] # 0 /\ ret[k].err # "Conflict"

\* The correlation IDs a frame may carry: that of a request that reached the
\* stream, or one (0) that no request carries.
FrameTokens == {0} \cup {tok[k] : k \in {j \in Calls : Attempted(j)}}

----------------------------------------------------------------------------
\* nextIDLoop and the callers' receive from c.nextID.

\* A caller enters the method of request r and receives from c.nextID:
\* case c.nextID <- id, met by the method's <-c.nextID.
GenSend(k, r) ==
    /\ genpc = "select"
    /\ pc[k] = "idle"
    /\ \A j \in Calls : j < k => pc[j] # "idle"
    /\ tok' = [tok EXCEPT ![k] = id]
    /\ id' = NextID(id)
    /\ lap' = IF NextID(id) = 1 THEN lap + 1 ELSE lap
    /\ tlap' = [tlap EXCEPT ![k] = lap]
    /\ noack' = [noack EXCEPT ![k] = AcksNone(r)]
    /\ pc' = [pc EXCEPT ![k] = IF SkipsResponse(r) THEN "write" ELSE "register"]
    /\ UNCHANGED <<genpc, ret, connVars, tableVars, closeVars, readerVars>>

\* MaxInt32 - 2 consecutive Produce calls with RequiredAcksNone, one short of
\* a full cycle of the counter: each receives one correlation ID and returns
\* after its write.  Together they change nothing but the counter, which
\* they leave one before where it was: the calls are not among Calls.
ProduceNoAckRun ==
    /\ genpc = "select"
    /\ lap < MaxLaps
    /\ id' = IF id = 1 THEN MaxInt32 - 1 ELSE id - 1
    /\ lap' = IF id = 1 THEN lap ELSE lap + 1
    /\ UNCHANGED <<genpc, connVars, tableVars, callVars, closeVars, readerVars>>

\* A caller enters the method of request r and finds c.nextID closed: the
\* method returns c.stopErr.
AcquireClosed(k, r) ==
    /\ pc[k] = "idle"
    /\ \A j \in Calls : j < k => pc[j] # "idle"
    /\ genpc = "done"
    /\ LocksForStopErr(r) => mu = "free"
    /\ ret' = [ret EXCEPT ![k] = ClosedResult]
    /\ pc' = [pc EXCEPT ![k] = "done"]
    /\ UNCHANGED <<noack, tok, tlap, genVars, connVars, tableVars, closeVars, readerVars>>

\* c.respWaiter(req.CorrelationID).
Register(k) ==
    /\ pc[k] = "register"
    /\ mu = "free"
    /\ LET w == RespWaiter(tok[k], k) IN
        IF w.err = "nil"
        THEN /\ respc' = w.table
             /\ chan' = [chan EXCEPT ![k] = "open"]
             /\ pc' = [pc EXCEPT ![k] = "write"]
             /\ ret' = ret
        ELSE /\ respc' = w.table
             /\ chan' = chan
             /\ pc' = [pc EXCEPT ![k] = "done"]
             /\ ret' = [ret EXCEPT ![k] = [resp |-> <<>>, err |-> w.err]]
    /\ UNCHANGED <<panicked, noack, tok, tlap, genVars, connVars, closeVars, readerVars>>

\* req.WriteTo(c.rw) succeeds: a method that holds a channel goes on to
\* wait on it, Produce with RequiredAcksNone returns nil, nil.
WriteOk(k) ==
    /\ pc[k] = "write"
    /\ rwCloses = 0
    /\ IF chan[k] # "none"
       THEN /\ pc' = [pc EXCEPT ![k] = "wait"]
            /\ ret' = ret
       ELSE /\ pc' = [pc EXCEPT ![k] = "done"]
            /\ ret' = [ret EXCEPT ![k] = [resp |-> <<>>, err |-> "nil"]]
    /\ UNCHANGED <<noack, tok, tlap, genVars, connVars, tableVars, closeVars, readerVars>>

\* req.WriteTo(c.rw) fails: the method returns the error.
WriteFail(k) ==
    /\ pc[k] = "write"
    /\ pc' = [pc EXCEPT ![k] = "done"]
    /\ ret' = [ret EXCEPT ![k] = [resp |-> <<>>, err |-> "WriteErr"]]
    /\ UNCHANGED <<noack, tok, tlap, genVars, connVars, tableVars, closeVars, readerVars>>

\* b, ok := <-respc with the channel closed: the method returns c.stopErr.
RecvClosed(k, o) ==
    /\ pc[k] = "wait"
    /\ chan[k] = "closed"
    /\ LocksForStopErr([op |-> o]) => mu = "free"
    /\ ret' = [ret EXCEPT ![k] = ClosedResult]
    /\ pc' = [pc EXCEPT ![k] = "done"]
    /\ UNCHANGED <<noack, tok, tlap, genVars, connVars, tableVars, closeVars, readerVars>>

----------------------------------------------------------------------------
\* closeConnection, run by a Close() call or by readRespLoop.

\* A caller enters Close(): c.mu.Lock(), then either return the recorded
\* c.stopErr or record ErrClosed and go on, holding c.mu, to
\* c.stop <- struct{}{}.
CloseCheck(k) ==
    /\ cpc[k] = "idle"
    /\ \A j \in Closes : j < k => cpc[j] # "idle"
    /\ mu = "free"
    /\ IF StopErrSet
       THEN /\ cret' = [cret EXCEPT ![k] = AlreadyClosed("ErrClosed")]
            /\ cpc' = [cpc EXCEPT ![k] = "done"]
            /\ UNCHANGED <<mu, stopErr>>
       ELSE /\ stopErr' = "ErrClosed"
            /\ mu' = "closer"
            /\ cpc' = [cpc EXCEPT ![k] = "stop"]
            /\ cret' = cret
    /\ UNCHANGED <<stopCloses, rwCloses, genVars, tableVars, callVars, readerVars>>

\* c.stop <- struct{}{}, met by nextIDLoop's case <-c.stop, which closes
\* c.nextID and returns.
CloseStop(k) ==
    /\ cpc[k] = "stop"
    /\ genpc = "select"
    /\ genpc' = GenAfterStop
    /\ cpc' = [cpc EXCEPT ![k] = "teardown"]
    /\ UNCHANGED <<id, lap, cret, connVars, tableVars, callVars, readerVars>>

\* close(c.stop), return c.rw.Close() (nil or the stream's error), unlock.
CloseTeardown(k, r) ==
    /\ cpc[k] = "teardown"
    /\ stopCloses' = stopCloses + 1
    /\ rwCloses' = rwCloses + 1
    /\ mu' = "free"
    /\ cret' = [cret EXCEPT ![k] = r]
    /\ cpc' = [cpc EXCEPT ![k] = "done"]
    /\ UNCHANGED <<stopErr, genVars, tableVars, callVars, readerVars>>

----------------------------------------------------------------------------
\* readRespLoop.

\* proto.ReadResp(rd) returns a frame.
ReadFrame(t) ==
    /\ rdpc = "read"
    /\ nframes < MaxFrames
    /\ frame' = t
    /\ nframes' = nframes + 1
    /\ rdpc' = "lookup"
    /\ UNCHANGED <<rc, logged, genVars, connVars, tableVars, callVars, closeVars>>

\* proto.ReadResp(rd) returns an error: the peer hung up, the frame is
\* malformed, or c.rw has been closed.
ReadFail ==
    /\ rdpc = "read"
    /\ rdpc' = "lock"
    /\ UNCHANGED <<frame, rc, nframes, logged, genVars, connVars, tableVars,
                   callVars, closeVars>>

\* Under c.mu: look the frame's correlation ID up and delete its entry; log
\* and go on to the next frame when there is none.
Lookup ==
    /\ rdpc = "lookup"
    /\ mu = "free"
    /\ LET l == LookupAndDelete(frame) IN
        /\ respc' = l.table
        /\ IF l.ok
           THEN rc' = l.rc /\ rdpc' = "send" /\ frame' = frame /\ logged' = logged
           ELSE rc' = rc /\ rdpc' = "read" /\ frame' = 0 /\ logged' = logged + 1
    /\ UNCHANGED <<chan, panicked, nframes, genVars, connVars, callVars,
                   closeVars>>

\* rc <- b, met by the caller's <-respc, then close(rc).  A send on a closed
\* channel panics.
Deliver ==
    /\ rdpc = "send"
    /\ IF chan[rc] = "open"
       THEN /\ pc[rc] = "wait"
            /\ ret' = [ret EXCEPT ![rc] = [resp |-> <<frame>>, err |-> "nil"]]
            /\ pc' = [pc EXCEPT ![rc] = "done"]
            /\ chan' = [chan EXCEPT ![rc] = "sent"]
            /\ rdpc' = "read"
            /\ frame' = 0
            /\ rc' = 0
            /\ panicked' = panicked
       ELSE /\ panicked' = TRUE
            /\ rdpc' = "crashed"
            /\ UNCHANGED <<ret, pc, chan, frame, rc>>
    /\ UNCHANGED <<respc, noack, tok, tlap, nframes, logged, genVars,
                   connVars, closeVars>>

\* closeConnection(err) in readRespLoop: as CloseCheck, with the read error.
ReaderCloseCheck ==
    /\ rdpc = "lock"
    /\ mu = "free"
    /\ IF StopErrSet
       THEN /\ rdpc' = "drain"
            /\ UNCHANGED <<mu, stopErr>>
       ELSE /\ stopErr' = "ReadErr"
            /\ mu' = "reader"
            /\ rdpc' = "stop"
    /\ UNCHANGED <<stopCloses, rwCloses, frame, rc, nframes, logged, genVars,
                   tableVars, callVars, closeVars>>

ReaderCloseStop ==
    /\ rdpc = "stop"
    /\ genpc = "select"
    /\ genpc' = GenAfterStop
    /\ rdpc' = "teardown"
    /\ UNCHANGED <<id, lap, frame, rc, nframes, logged, connVars, tableVars,
                   callVars, closeVars>>

ReaderCloseTeardown ==
    /\ rdpc = "teardown"
    /\ stopCloses' = stopCloses + 1
    /\ rwCloses' = rwCloses + 1
    /\ mu' = "free"
    /\ rdpc' = "drain"
    /\ UNCHANGED <<stopErr, frame, rc, nframes, logged, genVars, tableVars,
                   callVars, closeVars>>

\* The deferred function: under c.mu, close every channel of c.respc.
\* Closing a closed channel panics.
Drain ==
    /\ rdpc = "drain"
    /\ mu = "free"
    /\ chan' = [k \in Calls |-> IF k \in Drained THEN "closed" ELSE chan[k]]
    /\ panicked' = (panicked \/ \E k \in Drained : chan[k] # "open")
    /\ rdpc' = "done"
    /\ UNCHANGED <<respc, frame, rc, nframes, logged, genVars, connVars,
                   callVars, closeVars>>

----------------------------------------------------------------------------
Next ==
    \/ \E k \in Calls, r \in Requests : GenSend(k, r)
    \/ ProduceNoAckRun
    \/ \E k \in Calls, r \in Requests : AcquireClosed(k, r)
    \/ \E k \in Calls : Register(k)
    \/ \E k \in Calls : WriteOk(k)
    \/ \E k \in Calls : WriteFail(k)
    \/ \E k \in Calls, o \in Ops : RecvClosed(k, o)
    \/ \E k \in Closes : CloseCheck(k)
    \/ \E k \in Closes : CloseStop(k)
    \/ \E k \in Closes, r \in {"nil", "CloseErr"} : CloseTeardown(k, r)
    \/ \E t \in FrameTokens : ReadFrame(t)
    \/ ReadFail
    \/ Lookup
    \/ Deliver
    \/ ReaderCloseCheck
    \/ ReaderCloseStop
    \/ ReaderCloseTeardown
    \/ Drain

Spec == Init /\ [][Next]_vars

\* Fairness: every goroutine that can take a step of the program takes it.
\* A caller entering a method or Close(), a frame arriving and the stream
\* failing while it is open are choices of the environment; a read on the
\* closed stream does return its error.
Fairness ==
    /\ \A k \in Calls : WF_vars(Register(k))
    /\ \A k \in Calls : WF_vars(WriteOk(k) \/ WriteFail(k))
    /\ \A k \in Calls : WF_vars(\E o \in Ops : RecvClosed(k, o))
    /\ \A k \in Closes : WF_vars(CloseStop(k))
    /\ \A k \in Closes : WF_vars(\E r \in {"nil", "CloseErr"} : CloseTeardown(k, r))
    /\ WF_vars(rwCloses > 0 /\ ReadFail)
    /\ WF_vars(Lookup)
    /\ WF_vars(Deliver)
    /\ WF_vars(ReaderCloseCheck)
    /\ WF_vars(ReaderCloseStop)
    /\ WF_vars(ReaderCloseTeardown)
    /\ WF_vars(Drain)

FairSpec == Init /\ [][Next]_vars /\ Fairness

----------------------------------------------------------------------------
\* Properties.

\* The calls that hold a correlation ID and have not returned.
Outstanding == {k \in Calls : pc[k] \in {"register", "write", "wait"}}

DeliveryCompletes ==
    \A k \in Calls :
        [] ((/\ pc[k] = "wait" /\ rdpc = "lookup" /\ frame = tok[k]
             /\ frame \in DOMAIN respc /\ respc[frame] = k)
            => <> (pc[k] = "done" /\ ret[k].resp = <<tok[k]>>))

C2_CloseUnblocksAll ==
    [] ((\E c \in Closes : cpc[c] = "done") => <> (\A k \in Calls : pc[k] # "wait"))

\* C3 as stated: all Close() calls that have returned returned the same value.
C3_SameFromEveryCall ==
    \A a, b \in Closes :
        (cpc[a] = "done" /\ cpc[b] = "done") => cret[a] = cret[b]

\* C3, amended: of the Close() calls that have returned, all but at most one
\* returned the recorded c.stopErr, and all of them did when readRespLoop
\* closed the connection; the remaining one returned what c.rw.Close() did.
C3_LosersReturnStopErr ==
    /\ \A a, b \in Closes :
        (a # b /\ cpc[a] = "done" /\ cpc[b] = "done") =>
            (cret[a] = stopErr \/ cret[b] = stopErr)
    /\ \A a \in Closes :
        cpc[a] = "done" =>
            /\ cret[a] \in {stopErr, "nil", "CloseErr"}
            /\ stopErr = "ReadErr" => cret[a] = stopErr

\* Two Close() calls have returned, one the stream's nil, one ErrClosed.
C3_Witness ==
    \E a, b \in Closes :
        /\ cpc[a] = "done" /\ cret[a] = "nil"
        /\ cpc[b] = "done" /\ cret[b] = "ErrClosed"

\* C4 as stated: no two outstanding calls hold the same correlation ID.
C4_OutstandingDistinct ==
    \A j, k \in Outstanding : j # k => tok[j] # tok[k]

\* C4, amended: two calls hold the same correlation ID only if nextIDLoop
\* reset its counter between the two receives.
C4_DistinctWithinLap ==
    \A j, k \in Calls :
        (j # k /\ tok[j] # 0 /\ tok[j] = tok[k]) => tlap[j] # tlap[k]

\* Two outstanding calls hold the same correlation ID, one lap apart.
C4_Witness ==
    \E j, k \in Outstanding : j # k /\ tok[j] = tok[k] /\ tlap[j] # tlap[k]

\* C5: once closeConnection has closed the stream, a call that enters a
\* method returns in that step, with the recorded c.stopErr and the table
\* untouched, and a call that was in flight returns the recorded c.stopErr.
C5_ClosedOpsReturnStopErr ==
    [][\A k \in Calls :
        /\ (rwCloses > 0 /\ pc[k] = "idle" /\ pc'[k] # "idle") =>
                (pc'[k] = "done" /\ respc' = respc)
        /\ (rwCloses > 0 /\ pc[k] # "done" /\ pc'[k] = "done") =>
                (ret'[k].err = stopErr /\ stopErr # "nil")]_vars

\* C6: a call that found c.nextID closed returned ErrClosed.
C6_ClosedIsErrClosed ==
    \A k \in Calls :
        (pc[k] = "done" /\ tok[k] = 0) => ret[k].err = "ErrClosed"

\* C7: a Produce call with RequiredAcksNone is never in respWaiter nor waiting
\* on a channel, owns no channel and no entry of the table, changes the
\* table in none of its steps, and returns no response and the write's error.
C7_NoAckLeavesTable ==
    [][\A k \in Calls :
        noack'[k] =>
            /\ pc'[k] \in {"write", "done"}
            /\ chan'[k] = "none"
            /\ k \notin {respc'[t] : t \in DOMAIN respc'}
            /\ pc'[k] # pc[k] => respc' = respc
            /\ pc'[k] = "done" =>
                (ret'[k].resp = <<>> /\ ret'[k].err \in {"nil", "WriteErr"})]_vars

\* A Produce call with RequiredAcksNone has returned nil, nil while another
\* call's entry is in the table.
C7_Witness ==
    \E k \in Calls :
        /\ noack[k] /\ pc[k] = "done" /\ ret[k].err = "nil"
        /\ DOMAIN respc # {}

\* C8: the step of readRespLoop that finds no entry for the frame's
\* correlation ID leaves the table and every channel as they were, and the
\* reader goes on to read.
C8_OrphanLeavesTable ==
    [][(rdpc = "lookup" /\ rdpc' # "lookup" /\ frame \notin DOMAIN respc) =>
        (respc' = respc /\ chan' = chan /\ pc' = pc /\ rdpc' = "read"
         /\ ~panicked')]_vars

\* A frame was logged as unknown, the reader is back at its read and the
\* entry of a waiting call is still in the table, its channel open.
C8_Witness ==
    /\ logged > 0
    /\ rdpc = "read"
    /\ \E k \in Calls :
        /\ pc[k] = "wait" /\ chan[k] = "open"
        /\ tok[k] \in DOMAIN respc /\ respc[tok[k]] = k

\* C9: respWaiter for a correlation ID that has an entry returns the conflict
\* error to the call and leaves the table and every channel as they were.
C9_ConflictKeepsEntry ==
    [][\A k \in Calls :
        (pc[k] = "register" /\ pc'[k] # "register" /\ tok[k] \in DOMAIN respc) =>
            /\ respc' = respc
            /\ chan' = chan
            /\ pc'[k] = "done"
            /\ ret'[k] = [resp |-> <<>>, err |-> "Conflict"]]_vars

\* A call got the conflict error and the call that held the entry has had
\* its own response.
C9_Witness ==
    \E j, k \in Calls :
        /\ j # k /\ tok[j] = tok[k]
        /\ pc[k] = "done" /\ ret[k].err = "Conflict"
        /\ pc[j] = "done" /\ ret[j].resp = <<tok[j]>>

\* C10: the counter starts at 1 and stays in 1 .. MaxInt32-1; a call receives
\* the counter's value, after which the counter is one more, or 1 after
\* MaxInt32-1.
C10_TokenSequence ==
    /\ id = 1
    /\ [][/\ id' \in 1..(MaxInt32 - 1)
          /\ \A k \in Calls :
                tok'[k] # tok[k] =>
                    /\ tok'[k] = id
                    /\ tok'[k] \in 1..(MaxInt32 - 1)
                    /\ id' = IF id = MaxInt32 - 1 THEN 1 ELSE id + 1]_vars

\* A call received MaxInt32-1 and the next one received 1.
C10_Witness ==
    \E j, k \in Calls :
        /\ tok[j] = MaxInt32 - 1 /\ tok[k] = 1
        /\ tlap[k] = tlap[j] + 1
        /\ id = 2

\* C11: readRespLoop is never in rc <- b for the channel of a call that has
\* already returned: a frame for such a call is discarded.
C11_NoSendToAbandoned ==
    rdpc = "send" => pc[rc] # "done"

\* C12: once the deferred function of readRespLoop has run, the table holds
\* no entry whose channel is still open.
C12_NoneStrandedAfterDrain ==
    rdpc = "done" => \A t \in DOMAIN respc : chan[respc[t]] # "open"

\* The close attempts that are inside the teardown of closeConnection.
Winners ==
    {k \in Closes : cpc[k] \in {"stop", "teardown"}}

\* C13: among the Close() calls and the reader's closeConnection exactly one
\* performs the teardown: c.stop and c.rw are closed at most once, both by
\* the same attempt, once before any attempt has returned; at most one
\* attempt is inside the teardown; an attempt that finds the connection
\* closed changes nothing of the connection.
C13_OneTeardown ==
    [][ /\ stopCloses' <= 1
        /\ rwCloses' <= 1
        /\ stopCloses' = rwCloses'
        /\ Cardinality(Winners') + (IF rdpc' \in {"stop", "teardown"} THEN 1 ELSE 0) <= 1
        /\ ((\E k \in Closes : cpc'[k] = "done") \/ rdpc' \in {"drain", "done"})
              => (stopCloses' = 1 /\ rwCloses' = 1)
        /\ \A k \in Closes :
              (cpc[k] = "idle" /\ cpc'[k] # "idle" /\ stopErr # "nil")
                 => (cpc'[k] = "done" /\ UNCHANGED <<connVars, genVars, tableVars>>)
        /\ (rdpc = "lock" /\ rdpc' # "lock" /\ stopErr # "nil")
              => (rdpc' = "drain" /\ UNCHANGED <<connVars, genVars, tableVars>>)
      ]_vars

\* Both Close() calls and the reader's closeConnection have returned.
C13_Witness ==
    /\ \A k \in Closes : cpc[k] = "done"
    /\ rdpc = "done"
    /\ stopCloses = 1
    /\ rwCloses = 1

\* C14: c.stopErr changes at most once: from nil to the error of the close
\* attempt that takes the lock first (ErrClosed from Close(), the read error
\* from readRespLoop), and then it keeps that value.
C14_StopErrSetOnce ==
    [][ /\ stopErr # "nil" => stopErr' = stopErr
        /\ (stopErr = "nil" /\ stopErr' # "nil")
              => \/ /\ \E k \in Closes : cpc[k] = "idle" /\ cpc'[k] = "stop"
                    /\ stopErr' = "ErrClosed"
                 \/ /\ rdpc = "lock" /\ rdpc' = "stop"
                    /\ stopErr' = "ReadErr"
      ]_vars

\* The reader recorded its read error, and a Close() that came later, with
\* ErrClosed, has returned.
C14_Witness ==
    /\ stopErr = "ReadErr"
    /\ \E k \in Closes : cpc[k] = "done" /\ cret[k] = "ReadErr"

\* The winning closeConnection has returned, or the deferred function of
\* readRespLoop has begun.
Shutdown ==
    stopCloses > 0 \/ rdpc \in {"drain", "done"}

\* C15: after shutdown nextIDLoop has returned and no caller receives a
\* correlation ID: the counter and the callers' IDs do not change, and a
\* call that enters a method returns at once.
C15_NoTokenAfterShutdown ==
    [][ Shutdown =>
          /\ genpc = "done"
          /\ genpc' = "done"
          /\ id' = id
          /\ tok' = tok
          /\ \A k \in Calls : (pc[k] = "idle" /\ pc'[k] # "idle") => pc'[k] = "done"
      ]_vars

\* A call entered a method after the drain and returned without an ID.
C15_Witness ==
    /\ rdpc = "done"
    /\ stopCloses > 0
    /\ \E k \in Calls : pc[k] = "done" /\ tok[k] = 0 /\ ret[k].err = stopErr

\* C16: at most one caller at a time is inside req.WriteTo(c.rw).
C16_WritesSerialized ==
    Cardinality({k \in Calls : pc[k] = "write"}) <= 1

\* The positions of readRespLoop after proto.ReadResp has returned an error.
Failed == {"lock", "stop", "teardown", "drain", "done"}

\* C17: after its first read failure readRespLoop never reads or delivers
\* again; its closeConnection records the read error unless a reason is
\* recorded already; the deferred function runs once, when a reason is
\* recorded, and closes the channel of every entry of the table; and the
\* reader does get from the failure to the end of the deferred function.
C17_ReadFailureIsFatal ==
    /\ [][ /\ rdpc \in Failed
              => /\ rdpc' \in Failed
                 /\ \A k \in Calls : chan'[k] = "sent" => chan[k] = "sent"
           /\ (rdpc = "lock" /\ rdpc' # "lock")
              => stopErr' = (IF stopErr = "nil" THEN "ReadErr" ELSE stopErr)
           /\ rdpc' \in {"stop", "teardown", "drain", "done"} => stopErr' # "nil"
           /\ (rdpc = "drain" /\ rdpc' = "done")
              => \A t \in DOMAIN respc : chan'[respc[t]] = "closed"
           /\ rdpc = "done"
              => /\ rdpc' = "done"
                 /\ \A k \in Calls : chan'[k] = "closed" => chan[k] = "closed"
         ]_vars
    /\ (rdpc = "lock" ~> rdpc = "done")

\* The read failed while a call was waiting for its response and no reason
\* was recorded: the reader recorded its error and closed the call's channel.
C17_Witness ==
    /\ rdpc = "done"
    /\ stopErr = "ReadErr"
    /\ \E k \in Calls : chan[k] = "closed" /\ ret[k].err = "ReadErr"

\* C18: no channel of the table is resolved twice: readRespLoop never sends
\* on a closed channel and never closes a closed one; a channel that carried
\* a payload is out of the table and its call holds the payload, a channel
\* closed by the deferred function carried none.
C18_ResolvedOnce ==
    /\ ~panicked
    /\ rdpc # "crashed"
    /\ \A k \in Calls : chan[k] = "sent" => (ret[k].resp # <<>> /\ k \notin Registered)
    /\ \A k \in Calls : chan[k] = "closed" => ret[k].resp = <<>>

\* One call received its payload, then the deferred function closed the
\* channel of another.
C18_Witness ==
    /\ rdpc = "done"
    /\ \E j, k \in Calls : chan[j] = "sent" /\ chan[k] = "closed"

\* C19: the table holds no entry of a call that has returned.
C19_ReturnedLeavesTable ==
    \A k \in Calls : pc[k] = "done" => k \notin Registered

\* c.mu is held across steps only by the one close attempt inside the
\* teardown; while that attempt is at c.stop <- struct{}{} nextIDLoop is in
\* its select, ready to receive; so the holder can always take its next
\* step, which needs nothing of any caller or of the reader's delivery.
HolderCanStep ==
    /\ (mu = "free") <=> (Winners = {} /\ rdpc \notin {"stop", "teardown"})
    /\ (mu = "closer") <=> (Winners # {})
    /\ (mu = "reader") <=> (rdpc \in {"stop", "teardown"})
    /\ Cardinality(Winners) <= 1
    /\ \A k \in Closes : cpc[k] = "stop" => (genpc = "select" /\ ENABLED CloseStop(k))
    /\ \A k \in Closes : cpc[k] = "teardown" => ENABLED CloseTeardown(k, "nil")
    /\ rdpc = "stop" => (genpc = "select" /\ ENABLED ReaderCloseStop)
    /\ rdpc = "teardown" => ENABLED ReaderCloseTeardown

\* C20: every close attempt terminates: the holder of c.mu can always step,
\* a Close() inside the teardown returns, readRespLoop's closeConnection
\* returns once it is called, and nextIDLoop returns once a reason is
\* recorded.
C20_CloseTerminates ==
    /\ []HolderCanStep
    /\ \A k \in Closes : (cpc[k] \in {"stop", "teardown"}) ~> (cpc[k] = "done")
    /\ (rdpc \in {"lock", "stop", "teardown"}) ~> (rdpc \in {"drain", "done"})
    /\ (stopErr # "nil") ~> (genpc = "done" /\ mu = "free")

\* A Close() holds c.mu at the stop handshake while the reader waits for the
\* lock after a read failure and a call waits for it in respWaiter.
C20_Witness ==
    /\ \E k \in Closes : cpc[k] = "stop"
    /\ rdpc = "lock"
    /\ \E k \in Calls : pc[k] = "register"

====
